---- MODULE Spec2Model ----
(***************************************************************************)
(* Keyboard focus traversal over a UI element tree                         *)
(* (examples/gui/platform/src/focus.rs).                                   *)
(*                                                                         *)
(* An element is a record [tag, children].  A pointer to an element        *)
(* (a raw const pointer) is the element's position in the live tree: the   *)
(* sequence of 0-based child indices leading to it from the top element.   *)
(* The tree is built once and never changes, so every stored pointer       *)
(* stays valid.                                                            *)
(***************************************************************************)
EXTENDS Integers, Sequences, FiniteSets, TLC

VARIABLES tree, debug_build, focused, focused_ancestors, panicked, calls, last_root, prev,
          roots

vars == <<tree, debug_build, focused, focused_ancestors, panicked, calls, last_root, prev,
          roots>>

(* ---------------------------- bounds ----------------------------------- *)

\* Largest number of elements in the tree.
MaxNodes == 4

\* The call counter stops counting here (calls themselves are not limited).
MaxCalls == 3

(* ---------------------------- elements --------------------------------- *)

\* RocElemTag, as matched on by next_focusable_sibling.
LeafTags == {"Button", "Text"}

ContainerTags == {"Row", "Col"}

RECURSIVE TreesOfSize(_)
RECURSIVE ForestsOfSize(_)

\* Every element tree with exactly n elements: a leaf, or a Row/Col over an
\* ordered sequence of children.
TreesOfSize(n) ==
    (IF n = 1 THEN {[tag |-> t, children |-> <<>>] : t \in LeafTags} ELSE {})
    \cup {[tag |-> t, children |-> f] : t \in ContainerTags, f \in ForestsOfSize(n - 1)}

\* Every sequence of trees with n elements in total.
ForestsOfSize(n) ==
    IF n = 0 THEN {<<>>}
    ELSE UNION {{<<t>> \o f : t \in TreesOfSize(k), f \in ForestsOfSize(n - k)} : k \in 1..n}

Trees == UNION {TreesOfSize(n) : n \in 1..MaxNodes}

\* std::ptr::null(): no position starts with a negative index.
Null == <<-1>>

RECURSIVE At(_, _)
\* The element a pointer refers to (unsafe { &*ptr }).
At(t, p) == IF p = <<>> THEN t ELSE At(t.children[Head(p) + 1], Tail(p))

tag(p) == At(tree, p).tag

\* elem.entry().row_or_col.children: the number of children, and a pointer
\* to the child at 0-based index i.
NumChildren(p) == Len(At(tree, p).children)

Child(p, i) == Append(p, i)

RECURSIVE PositionsOf(_)
PositionsOf(t) ==
    {<<>>} \cup UNION {{<<i - 1>> \o q : q \in PositionsOf(t.children[i])} : i \in 1..Len(t.children)}

\* Every element of the live tree.
Positions == PositionsOf(tree)

\* RocElem::is_focusable: buttons take focus; text and containers never do.
is_focusable(p) == tag(p) = "Button"

(* ---------------------------- the search ------------------------------- *)

None == [kind |-> "None"]

Some(p, a) == [kind |-> "Some", ptr |-> p, ancestors |-> a]

\* children[0..focus_index] with focus_index > children.len() panics.
Panic == [kind |-> "Panic"]

\* Option<usize>::None for opt_index.
NoIndex == -1

RECURSIVE next_focusable_sibling(_, _, _)
RECURSIVE search_children(_, _, _, _)

\* A variant that finds something: a container none of whose searched
\* children matches is itself returned as the match, recorded under an index
\* one past its last child.
next_focusable_sibling_container_match(elem, ancestor, opt_index) ==
    IF tag(elem) \in LeafTags THEN None
    ELSE LET limit == IF opt_index = NoIndex THEN NumChildren(elem) ELSE opt_index
         IN  IF limit > NumChildren(elem) THEN Panic
             ELSE LET r == search_children(elem, ancestor, 0, limit)
                  IN  IF r.kind # "None" THEN r
                      ELSE Some(elem, <<<<elem, NumChildren(elem) + 1>>>>)

\* fn next_focusable_sibling(elem, ancestor, opt_index)
next_focusable_sibling(elem, ancestor, opt_index) ==
    IF tag(elem) \in LeafTags THEN None
    ELSE LET limit == IF opt_index = NoIndex THEN NumChildren(elem) ELSE opt_index
         IN  IF limit > NumChildren(elem) THEN Panic
             ELSE search_children(elem, ancestor, 0, limit)

\* for child in iter { if let Some(focused) = ... { return Some(focused) } } None
search_children(elem, ancestor, i, limit) ==
    IF i >= limit THEN None
    ELSE LET r == next_focusable_sibling(Child(elem, i), ancestor, NoIndex)
         IN  IF r.kind # "None" THEN r
             ELSE search_children(elem, ancestor, i + 1, limit)

RECURSIVE next_focusable_sibling_visits(_, _, _)
RECURSIVE search_children_visits(_, _, _, _)
RECURSIVE search_children_visits_restart(_, _, _, _)

\* A variant that slices after the index: children[focus_index..].
next_focusable_sibling_visits_after(elem, ancestor, opt_index) ==
    <<elem>> \o
    (IF tag(elem) \in LeafTags THEN <<>>
     ELSE LET first == IF opt_index = NoIndex THEN 0 ELSE opt_index
          IN  IF first > NumChildren(elem) THEN <<>>
              ELSE search_children_visits(elem, ancestor, first, NumChildren(elem)))

\* The elements next_focusable_sibling(elem, ancestor, opt_index) is entered
\* on, the call itself and every recursive call, in the order of the calls.
next_focusable_sibling_visits(elem, ancestor, opt_index) ==
    <<elem>> \o
    (IF tag(elem) \in LeafTags THEN <<>>
     ELSE LET limit == IF opt_index = NoIndex THEN NumChildren(elem) ELSE opt_index
          IN  IF limit > NumChildren(elem) THEN <<>>
              ELSE search_children_visits(elem, ancestor, 0, limit))

\* A variant that goes over the earlier children again before each child.
search_children_visits_restart(elem, ancestor, i, limit) ==
    IF i >= limit THEN <<>>
    ELSE (IF i > 0 THEN next_focusable_sibling_visits(Child(elem, i - 1), ancestor, NoIndex)
          ELSE <<>>)
         \o next_focusable_sibling_visits(Child(elem, i), ancestor, NoIndex)
         \o (IF next_focusable_sibling(Child(elem, i), ancestor, NoIndex).kind # "None"
             THEN <<>>
             ELSE search_children_visits_restart(elem, ancestor, i + 1, limit))

\* The same for the loop over the children from index i on: it stops at the
\* first child whose search returns something.
search_children_visits(elem, ancestor, i, limit) ==
    IF i >= limit THEN <<>>
    ELSE next_focusable_sibling_visits(Child(elem, i), ancestor, NoIndex)
         \o (IF next_focusable_sibling(Child(elem, i), ancestor, NoIndex).kind # "None"
             THEN <<>>
             ELSE search_children_visits(elem, ancestor, i + 1, limit))

(* ---------------------------- the tracker ------------------------------ *)

Tracker(f, a, p) == [focused |-> f, focused_ancestors |-> a, panicked |-> p]

\* A variant that starts with the top element focused.
Default_focused_root == Tracker(<<>>, <<>>, FALSE)

\* Focus::default()
Default == Tracker(Null, <<>>, FALSE)

\* A variant that skips the root and always searches below it.
advance_unfocused_never_root(self, root) ==
    LET r == next_focusable_sibling(root, Null, NoIndex)
    IN  IF r.kind = "Some" THEN Tracker(r.ptr, r.ancestors, FALSE)
        ELSE IF r.kind = "Panic" THEN Tracker(self.focused, self.focused_ancestors, TRUE)
        ELSE self

\* A variant that focuses the root without asking whether it is focusable.
advance_unfocused_any_root(self, root) == Tracker(root, <<>>, FALSE)

\* The branch of advance taken when nothing is focused.
advance_unfocused(self, root) ==
    IF is_focusable(root) THEN Tracker(root, <<>>, FALSE)
    ELSE LET r == next_focusable_sibling(root, Null, NoIndex)
         IN  IF r.kind = "Some" THEN Tracker(r.ptr, r.ancestors, FALSE)
             ELSE IF r.kind = "Panic" THEN Tracker(self.focused, self.focused_ancestors, TRUE)
             ELSE self

RECURSIVE advance_walk_clears(_, _)
\* A variant that drops the focus when the path is exhausted.
advance_walk_clears(cur_focused, path) ==
    IF path = <<>> THEN Tracker(Null, <<>>, FALSE)
    ELSE LET entry == path[Len(path)]
             rest == SubSeq(path, 1, Len(path) - 1)
             r == next_focusable_sibling(cur_focused, entry[1], entry[2])
         IN  IF r.kind = "Panic" THEN Tracker(cur_focused, rest, TRUE)
             ELSE IF r.kind = "Some"
                  THEN IF debug_build /\ r.ptr = Null THEN Tracker(cur_focused, rest, TRUE)
                       ELSE Tracker(r.ptr, rest \o r.ancestors, FALSE)
             ELSE advance_walk_clears(cur_focused, rest)

RECURSIVE advance_walk(_, _)
\* while let Some((ancestor_ptr, index)) = self.focused_ancestors.pop() { ... }
\* cur_focused is the element focused at entry; path is what is left of
\* self.focused_ancestors.  debug_assert! panics in a debug build only.
advance_walk(cur_focused, path) ==
    IF path = <<>> THEN Tracker(cur_focused, <<>>, FALSE)
    ELSE LET entry == path[Len(path)]
             rest == SubSeq(path, 1, Len(path) - 1)
             r == next_focusable_sibling(cur_focused, entry[1], entry[2])
         IN  IF r.kind = "Panic" THEN Tracker(cur_focused, rest, TRUE)
             ELSE IF r.kind = "Some"
                  THEN IF debug_build /\ r.ptr = Null THEN Tracker(cur_focused, rest, TRUE)
                       ELSE Tracker(r.ptr, rest \o r.ancestors, FALSE)
             ELSE advance_walk(cur_focused, rest)

RECURSIVE advance_walk_iterations(_, _)
\* The number of iterations of the while loop of advance: it goes on while
\* pop() returns an entry and the search for it returns None.
advance_walk_iterations(cur_focused, path) ==
    IF path = <<>> THEN 0
    ELSE LET entry == path[Len(path)]
             rest == SubSeq(path, 1, Len(path) - 1)
             r == next_focusable_sibling(cur_focused, entry[1], entry[2])
         IN  IF r.kind = "None" THEN 1 + advance_walk_iterations(cur_focused, rest)
             ELSE 1

\* A variant that wraps around: when the walk finds nothing it starts over
\* from the root as if nothing were focused.
advance_wraps(self, root) ==
    IF self.focused = Null THEN advance_unfocused(self, root)
    ELSE LET new == advance_walk(self.focused, self.focused_ancestors)
         IN  IF new.focused = self.focused /\ ~new.panicked
             THEN advance_unfocused(Tracker(Null, <<>>, FALSE), root)
             ELSE new

\* pub fn advance(&mut self, root: &RocElem)
advance(self, root) ==
    IF self.focused = Null THEN advance_unfocused(self, root)
    ELSE advance_walk(self.focused, self.focused_ancestors)

\* pub fn focused_elem(&self)
focused_elem == focused

(* ---------------------------- the state machine ------------------------ *)

\* The tracker as a value.
Self == Tracker(focused, focused_ancestors, panicked)

\* The caller builds a tree and a fresh tracker; the program is a debug or a
\* release build.
Init ==
    /\ tree \in Trees
    /\ debug_build \in BOOLEAN
    /\ focused = Default.focused
    /\ focused_ancestors = Default.focused_ancestors
    /\ panicked = FALSE
    /\ calls = 0
    /\ last_root = Null
    /\ prev = Default
    /\ roots = {}

\* One call focus.advance(&root).  calls, last_root and prev record the call:
\* how many calls were made (up to MaxCalls), the root passed, and the tracker
\* before the call.  A panic ends the program.
Advance(root) ==
    /\ ~panicked
    /\ LET new == advance(Self, root)
       IN  /\ focused' = new.focused
           /\ focused_ancestors' = new.focused_ancestors
           /\ panicked' = new.panicked
    /\ calls' = IF calls < MaxCalls THEN calls + 1 ELSE calls
    /\ last_root' = root
    /\ prev' = Self
    /\ UNCHANGED <<tree, debug_build, roots>>

\* The caller passes the top of the tree.
AdvanceRoot == Advance(<<>>)

\* The caller passes an element further down the tree as the root.
AdvanceSub == \E root \in Positions \ {<<>>} : Advance(root)

Next == AdvanceRoot \/ AdvanceSub

Spec == Init /\ [][Next]_vars

\* Every call passes the top of the tree, and the caller keeps pressing Tab.
RootSpec == Init /\ [][AdvanceRoot]_vars /\ WF_vars(AdvanceRoot)

\* The (ancestor, index) pairs a path entry can record: a container of the
\* tree and the index of one of its children.
Edges == {e \in Positions \X (0..MaxNodes) : e[2] < NumChildren(e[1])}

RECURSIVE PathsUpTo(_)
\* Every Vec of at most n such entries, no entry twice.
PathsUpTo(n) ==
    IF n = 0 THEN {<<>>}
    ELSE PathsUpTo(n - 1)
         \cup UNION {{Append(p, e) : e \in Edges \ {p[k] : k \in 1..Len(p)}} : p \in PathsUpTo(n - 1)}

\* advance as a function of the tracker it is called on: the tracker holds
\* any element or null, and any path of entries over the tree, not only what
\* earlier calls left there.  The trees have one element fewer than in Init.
FnInit ==
    /\ tree \in UNION {TreesOfSize(n) : n \in 1..(MaxNodes - 1)}
    /\ debug_build \in BOOLEAN
    /\ focused \in Positions \cup {Null}
    /\ focused_ancestors \in PathsUpTo(Cardinality(Edges))
    /\ panicked = FALSE
    /\ calls = 0
    /\ last_root = Null
    /\ prev = Default
    /\ roots = {}

FnSpec == FnInit /\ [][Next]_vars

\* The same call, recording every root passed so far in roots instead of
\* counting the calls.
AdvanceRecorded ==
    \E root \in Positions :
        /\ ~panicked
        /\ LET new == advance(Self, root)
           IN  /\ focused' = new.focused
               /\ focused_ancestors' = new.focused_ancestors
               /\ panicked' = new.panicked
        /\ last_root' = root
        /\ prev' = Self
        /\ roots' = roots \cup {root}
        /\ UNCHANGED <<tree, debug_build, calls>>

HistorySpec == Init /\ [][AdvanceRecorded]_vars

(* ---------------------------- document order --------------------------- *)

RECURSIVE DocOrder(_)
RECURSIVE DocOrderFrom(_, _)

\* The focusable elements of the subtree at p in document order: pre-order,
\* children left to right.
DocOrder(p) == (IF is_focusable(p) THEN <<p>> ELSE <<>>) \o DocOrderFrom(p, 0)

\* The same for the children of p from index i on.
DocOrderFrom(p, i) ==
    IF i >= NumChildren(p) THEN <<>>
    ELSE DocOrder(Child(p, i)) \o DocOrderFrom(p, i + 1)

\* The container an element hangs off.
Parent(p) == SubSeq(p, 1, Len(p) - 1)

\* A call has returned.
Called == calls >= 1 /\ ~panicked

\* The call advance(self, root) leaves by an exit on which no search returned
\* a match and the root itself was not taken.
NothingFound(self, root) ==
    IF self.focused = Null
    THEN ~is_focusable(root) /\ next_focusable_sibling(root, Null, NoIndex).kind = "None"
    ELSE \A k \in 1..Len(self.focused_ancestors) :
            next_focusable_sibling(self.focused, self.focused_ancestors[k][1],
                                   self.focused_ancestors[k][2]).kind = "None"

\* The ancestor path of the element at p: one entry per container from the
\* top of the tree down to p's parent, the innermost entry last (the one
\* pop() returns first).
PathTo(p) == [k \in 1..Len(p) |-> <<SubSeq(p, 1, k - 1), p[k]>>]

\* A tracker as the data model describes it: a focusable element is focused
\* and the path is the chain of its ancestors.
WellFormed(self) ==
    /\ self.focused # Null
    /\ is_focusable(self.focused)
    /\ self.focused_ancestors = PathTo(self.focused)

RECURSIVE ResumeTarget(_)
\* The element the outward walk is to find: going through the entries from the
\* innermost outward, the first focusable element in document order among the
\* children of the entry's ancestor after the entry's index; Null when no
\* entry has one.
ResumeTarget(path) ==
    IF path = <<>> THEN Null
    ELSE LET e == path[Len(path)]
             after == DocOrderFrom(e[1], e[2] + 1)
         IN  IF after # <<>> THEN after[1]
             ELSE ResumeTarget(SubSeq(path, 1, Len(path) - 1))

RECURSIVE PreOrder(_)
RECURSIVE PreOrderRange(_, _, _)

\* Every element of the subtree at p in document order.
PreOrder(p) == <<p>> \o PreOrderRange(p, 0, NumChildren(p))

\* Every element below the children i, ..., limit - 1 of p in document order.
PreOrderRange(p, i, limit) ==
    IF i >= limit THEN <<>>
    ELSE PreOrder(Child(p, i)) \o PreOrderRange(p, i + 1, limit)

\* No element occurs twice in the sequence.
NoDup(seq) == \A i, j \in 1..Len(seq) : i # j => seq[i] # seq[j]

\* The searches a call advance(self, root) makes, as <<elem, ancestor, index>>
\* argument triples: one of the root when nothing is focused and the root is
\* not taken, else one per iteration of the walk.
Searches(self, root) ==
    IF self.focused = Null
    THEN IF is_focusable(root) THEN {} ELSE {<<root, Null, NoIndex>>}
    ELSE LET path == self.focused_ancestors
             n == advance_walk_iterations(self.focused, path)
         IN  {<<self.focused, path[k][1], path[k][2]>> : k \in (Len(path) - n + 1)..Len(path)}

\* The element at p lies below the element at r.
IsProperDescendant(p, r) == Len(p) > Len(r) /\ SubSeq(p, 1, Len(r)) = r

(* ---------------------------- properties ------------------------------- *)

C2_FirstFocusByDescent ==
    (Called /\ prev.focused = Null /\ ~is_focusable(last_root))
    => focused_elem = (IF DocOrder(last_root) = <<>> THEN Null ELSE DocOrder(last_root)[1])

\* C3: single candidate convergence.  On a tree with exactly one focusable
\* element, repeated advance(root) calls reach that element and stay on it.
C3_SingleCandidateConvergence ==
    <>[](Len(DocOrder(<<>>)) = 1 => focused_elem = DocOrder(<<>>)[1])

\* C4: a focusable root gets focus.  A call made with nothing focused and a
\* focusable root leaves focused = root and an empty ancestor path.
C4_FocusableRootGetsFocus ==
    (Called /\ prev.focused = Null /\ is_focusable(last_root))
    => (focused = last_root /\ focused_ancestors = <<>>)

C4_Witness ==
    /\ Called
    /\ prev.focused = Null
    /\ is_focusable(last_root)
    /\ focused_elem = last_root

\* C5: no focusable element means no focus.  On a tree without any focusable
\* element, focus is absent after every advance(root) call and each call leaves
\* the tracker as it was.
C5_NoFocusableNoFocus ==
    (calls >= 1 /\ DocOrder(<<>>) = <<>>)
    => (~panicked /\ focused_elem = Null /\ Self = prev /\ Self = Default)

C5_Witness ==
    /\ calls >= 2
    /\ DocOrder(<<>>) = <<>>
    /\ NumChildren(<<>>) >= 1
    /\ focused_elem = Null

\* C6: no wrap-around.  A call made while the focused element is the last
\* focusable element under the root in document order (the root itself
\* included) leaves the focus on that element.
C6_NoWrapAround ==
    LET d == DocOrder(last_root)
    IN  (calls >= 1 /\ prev.focused # Null /\ d # <<>> /\ prev.focused = d[Len(d)])
        => (~panicked /\ focused_elem = prev.focused)

C6_Witness ==
    LET d == DocOrder(last_root)
    IN  /\ Called
        /\ prev.focused # Null
        /\ Len(d) >= 2
        /\ prev.focused = d[Len(d)]
        /\ focused_elem = d[Len(d)]

\* C7: a silent no-op keeps the whole state.  A call that finds no next
\* focusable element leaves both the focused reference and the ancestor path
\* as they were before the call.
C7_NoOpKeepsState ==
    (calls >= 1 /\ NothingFound(prev, last_root))
    => (/\ ~panicked
        /\ focused = prev.focused
        /\ focused_ancestors = prev.focused_ancestors)

C7_Witness ==
    /\ Called
    /\ NothingFound(prev, last_root)
    /\ prev.focused # Null
    /\ last_root # prev.focused
    /\ is_focusable(last_root)
    /\ Self = prev

\* C8: a freshly constructed tracker has no focus: before any advance,
\* focused_elem() is null and the ancestor path is empty.
C8_FreshTrackerHasNoFocus ==
    (calls = 0) => (focused_elem = Null /\ focused_ancestors = <<>>)

C8_Witness ==
    /\ calls = 0
    /\ DocOrder(<<>>) # <<>>
    /\ focused_elem = Null

\* C9: advance has no error outcome: no call panics, neither on the null-match
\* assertion nor on the slice children[0..index].
C9_NoErrorOutcome == ~panicked

C9_Witness ==
    /\ calls >= 2
    /\ ~panicked
    /\ prev.focused # Null
    /\ tag(last_root) \in ContainerTags
    /\ focused_elem # Null

C13_Termination ==
    (calls >= 1) =>
        /\ prev.focused # Null =>
              /\ advance_walk_iterations(prev.focused, prev.focused_ancestors)
                    <= Len(prev.focused_ancestors)
              /\ Len(focused_ancestors)
                    = Len(prev.focused_ancestors)
                      - advance_walk_iterations(prev.focused, prev.focused_ancestors)
        /\ \A s \in Searches(prev, last_root) :
              LET v == next_focusable_sibling_visits(s[1], s[2], s[3])
              IN  /\ NoDup(v)
                  /\ \A i \in 1..Len(v) : \E j \in 1..Len(PreOrder(s[1])) : v[i] = PreOrder(s[1])[j]

C13_Witness ==
    /\ Called
    /\ prev.focused # Null
    /\ tag(prev.focused) \in ContainerTags
    /\ advance_walk_iterations(prev.focused, prev.focused_ancestors) >= 2
    /\ \E s \in Searches(prev, last_root) :
          Len(next_focusable_sibling_visits(s[1], s[2], s[3])) >= 2

\* C14: focus is only ever on a focusable element: the focused reference is
\* null or refers to a button, never to a container or a text.
C14_FocusOnlyOnFocusable == focused = Null \/ is_focusable(focused)

C14_Witness ==
    /\ Called
    /\ focused # Null
    /\ focused # <<>>
    /\ is_focusable(focused)

\* C15: focus is never lost: once the focused reference is present it is
\* present after every later advance call, whatever root is passed.
C15_FocusNeverLost == [][focused # Null => focused' # Null]_vars

C15_Witness ==
    /\ calls >= 3
    /\ ~panicked
    /\ prev.focused # Null
    /\ focused = prev.focused
    /\ ~is_focusable(last_root)

\* C16 as stated: the focused reference is null or an element passed as the
\* root of an earlier advance call, and it is a proper descendant of no root
\* passed.
C16_OnlyRootHoldsFocus ==
    focused = Null
    \/ (focused \in roots /\ \A r \in roots : ~IsProperDescendant(focused, r))

\* C16, amended: the focused reference is null or an element passed as the
\* root of an earlier advance call, and a call that changes the focus sets it
\* to the root it was passed, never to an element below that root.
C16_FocusWasPassedAsRoot ==
    focused # Null =>
        /\ focused \in roots
        /\ focused # prev.focused => focused = last_root

C16_Witness ==
    /\ focused # Null
    /\ focused \in roots
    /\ \E r \in roots : IsProperDescendant(focused, r)

\* C17: the ancestor path is empty at every call boundary, so the outward
\* loop of advance never runs an iteration.
C17_PathAlwaysEmpty ==
    /\ focused_ancestors = <<>>
    /\ (calls >= 1 /\ prev.focused # Null)
       => advance_walk_iterations(prev.focused, prev.focused_ancestors) = 0

C17_Witness ==
    /\ calls >= 2
    /\ ~panicked
    /\ prev.focused # Null
    /\ tag(<<>>) \in ContainerTags
    /\ last_root = <<>>
    /\ focused_ancestors = <<>>

\* C18: the root argument is ignored once focus exists: on one tracker with
\* focus present, advance(r1) and advance(r2) give the same tracker for any two
\* roots r1 and r2.
C18_RootIgnoredOnceFocused ==
    (focused # Null /\ ~panicked)
    => \A r1, r2 \in Positions : advance(Self, r1) = advance(Self, r2)

C18_Witness ==
    /\ focused # Null
    /\ ~panicked
    /\ focused_ancestors # <<>>
    /\ \E r1, r2 \in Positions :
          /\ is_focusable(r1)
          /\ ~is_focusable(r2)
          /\ advance(Self, r1) = advance(Self, r2)
          /\ advance(Self, r1) # Self

====
